---------------------------- MODULE Spec2Model ----------------------------
(***************************************************************************)
(* The voice-controlled music player: MusicPlayer and main() of            *)
(* music_player.py, and VocalCommandRecognizer of                          *)
(* command_recognition_music.py.                                           *)
(*                                                                         *)
(* Spec         the interactive loop of main(), one recognition cycle at   *)
(*              a time (capture, extraction, classification, gate,         *)
(*              dispatch), the keyword commands and the cleanup.           *)
(* SpecPredict  VocalCommandRecognizer.predict_command applied to every    *)
(*              output the model artifact can give.                        *)
(* SpecExecute  VocalCommandRecognizer.execute_music_command applied to    *)
(*              every command string and every player state.               *)
(***************************************************************************)
EXTENDS Integers, Sequences, FiniteSets

\* ------------------------------------------------------------- bounds

\* len(track_list) ranges over 0..MaxTracks (the files found in music_library).
MaxTracks == 2

\* The device callback delivers at most MaxBlocks blocks while the stream is open.
MaxBlocks == 44

\* Probabilities are multiples of 1/ProbScale.
ProbScale == 5

\* ------------------------------------------------- program constants

\* self.sample_rate, self.duration, self.chunk_size
sample_rate == 22050

duration == 2

chunk_size == 1024

\* n_mfcc: the length of the feature vector
n_mfcc == 13

\* confidence_threshold = 0.4, as the fraction ThresholdNum / ThresholdDen
ThresholdNum == 4

ThresholdDen == 10

\* self.commands, indexed by the model's integer label (0-based in the code)
commands == <<"shush", "click", "whistle", "pop", "hiss", "hum">>

NumCommands == Len(commands)

Labels == {commands[i] : i \in 1..NumCommands}

\* A command string outside the closed label set.
UnknownLabel == "buzz"

\* The controller methods the loop can invoke.
Methods == {"play", "pause", "next_track", "previous_track", "volume_up", "volume_down"}

\* Mutant of sound_mapping: the entry for 'hum' is missing.
sound_mapping_without_hum ==
    [c \in {"shush", "hiss", "click", "pop", "whistle"} |->
        CASE c = "shush"   -> "pause"
          [] c = "hiss"    -> "previous_track"
          [] c = "click"   -> "volume_down"
          [] c = "pop"     -> "next_track"
          [] c = "whistle" -> "volume_up"]

\* main's sound_mapping: label -> the bound method stored under 'action'
sound_mapping ==
    [c \in {"shush", "hum", "hiss", "click", "pop", "whistle"} |->
        CASE c = "shush"   -> "pause"
          [] c = "hum"     -> "play"
          [] c = "hiss"    -> "previous_track"
          [] c = "click"   -> "volume_down"
          [] c = "pop"     -> "next_track"
          [] c = "whistle" -> "volume_up"]

\* ------------------------------------------------ volume (IEEE doubles)
(***************************************************************************)
(* self.volume is a double.  A volume <<k, d>> stands for the double whose *)
(* exact value is k * T + d in units of 2^-55, where T = 3602879701896397  *)
(* is the double nearest to 0.1 in those units.  In the same units         *)
(* 2 T < 0.25 < 3 T, 0.5 = 5 T - 1 and 1.0 = 10 T - 2, so the binade of    *)
(* k * T + d, and with it the spacing of the doubles around it, is decided *)
(* by k and d (d stays small); T mod 16 = 13 gives the low bits that       *)
(* round-to-nearest-even needs.  Below 0.25 every multiple of 2^-55 is a   *)
(* double, so the sum is exact there.                                      *)
(***************************************************************************)
TenthMod16 == 13

\* The default volume 0.7 = 7 T - 3, 0.0 and 1.0.
DefaultVolume == <<7, -3>>

VolumeMin == <<0, 0>>

VolumeMax == <<10, -2>>

\* Spacing (in units of 2^-55) of the doubles in the binade of k * T + d.
Ulp(k, d) ==
    IF k <= 2 THEN 1
    ELSE IF k <= 4 \/ (k = 5 /\ d < -1) THEN 2
    ELSE IF k <= 9 \/ (k = 10 /\ d < -2) THEN 4
    ELSE 8

\* The double nearest to k * T + d (ties to even), as the new d.
RoundNearestEven(k, d) ==
    LET U == Ulp(k, d)
        m == (TenthMod16 * k + d) % 16
        r == m % U
        q == ((m - r) \div U) % 2
    IN  IF r = 0 THEN d
        ELSE IF 2 * r < U THEN d - r
        ELSE IF 2 * r > U THEN d - r + U
        ELSE IF q = 0 THEN d - r
        ELSE d - r + U

\* Mutant of VolumePlusTenth: v + 0.1 without the min.
VolumePlusTenthUnclamped(v) ==
    <<v[1] + 1, RoundNearestEven(v[1] + 1, v[2])>>

\* min(1.0, v + 0.1)
VolumePlusTenth(v) ==
    LET k == v[1] + 1
        d == RoundNearestEven(k, v[2])
    IN  IF k > 10 \/ (k = 10 /\ d >= -2) THEN VolumeMax ELSE <<k, d>>

\* max(0.0, v - 0.1)
VolumeMinusTenth(v) ==
    LET k == v[1] - 1
    IN  IF k < 0 \/ (k = 0 /\ v[2] <= 0) THEN VolumeMin
        ELSE <<k, RoundNearestEven(k, v[2])>>

\* ------------------------------------------------------- MusicPlayer
(***************************************************************************)
(* A player is the record of MusicPlayer's fields; track_len is            *)
(* len(self.track_list).  Each method is an operator from the player       *)
(* before the call to the player after it.  loaded tells whether           *)
(* pygame.mixer.music.load / play succeed (they raise pygame.error on a    *)
(* file pygame cannot decode, which play() catches).                       *)
(***************************************************************************)
NewPlayer(n) ==
    [track_len |-> n, current_track_index |-> 0, volume |-> DefaultVolume,
     is_playing |-> FALSE, is_paused |-> FALSE]

play(p, loaded) ==
    IF p.track_len = 0 THEN p
    ELSE IF p.is_paused THEN [p EXCEPT !.is_paused = FALSE, !.is_playing = TRUE]
    ELSE IF loaded THEN [p EXCEPT !.is_playing = TRUE]
    ELSE p

\* Mutant of pause: is_playing is left set.
pause_keeps_playing(p) ==
    IF p.is_playing /\ ~p.is_paused
    THEN [p EXCEPT !.is_paused = TRUE]
    ELSE p

\* Mutant of pause: pausing a paused player resumes it.
pause_toggles(p) ==
    IF p.is_playing /\ ~p.is_paused
    THEN [p EXCEPT !.is_paused = TRUE, !.is_playing = FALSE]
    ELSE IF p.is_paused THEN [p EXCEPT !.is_paused = FALSE, !.is_playing = TRUE]
    ELSE p

pause(p) ==
    IF p.is_playing /\ ~p.is_paused
    THEN [p EXCEPT !.is_paused = TRUE, !.is_playing = FALSE]
    ELSE p

stop(p) == [p EXCEPT !.is_playing = FALSE, !.is_paused = FALSE]

\* Mutant of next_track: the index is advanced without the modulo.
next_track_no_wrap(p, loaded) ==
    IF p.track_len = 0 THEN p
    ELSE play(stop([p EXCEPT !.current_track_index = p.current_track_index + 1]),
              loaded)

next_track(p, loaded) ==
    IF p.track_len = 0 THEN p
    ELSE play(stop([p EXCEPT !.current_track_index =
                                (p.current_track_index + 1) % p.track_len]), loaded)

\* Mutant of previous_track: the index is decremented without the modulo.
previous_track_no_wrap(p, loaded) ==
    IF p.track_len = 0 THEN p
    ELSE play(stop([p EXCEPT !.current_track_index = p.current_track_index - 1]),
              loaded)

previous_track(p, loaded) ==
    IF p.track_len = 0 THEN p
    ELSE play(stop([p EXCEPT !.current_track_index =
                                (p.current_track_index - 1) % p.track_len]), loaded)

volume_up(p) == [p EXCEPT !.volume = VolumePlusTenth(p.volume)]

volume_down(p) == [p EXCEPT !.volume = VolumeMinusTenth(p.volume)]

\* Calling the bound method named m.
Invoke(m, p, loaded) ==
    CASE m = "play"           -> play(p, loaded)
      [] m = "pause"          -> pause(p)
      [] m = "next_track"     -> next_track(p, loaded)
      [] m = "previous_track" -> previous_track(p, loaded)
      [] m = "volume_up"      -> volume_up(p)
      [] m = "volume_down"    -> volume_down(p)

\* self.track_list[self.current_track_index] raises IndexError outside
\* -len .. len - 1 (play reads it in both branches, and only pygame.error is caught).
IndexError(p) ==
    p.current_track_index \notin (0 - p.track_len)..(p.track_len - 1)

\* Whether calling the method named m on player p raises: play indexes the
\* track list unless it is empty, next_track and previous_track call play on
\* the index they have set, the other methods index nothing.
Raises(m, p) ==
    CASE m = "play"           -> p.track_len > 0 /\ IndexError(p)
      [] m = "next_track"     -> p.track_len > 0 /\ IndexError(next_track(p, TRUE))
      [] m = "previous_track" -> p.track_len > 0 /\ IndexError(previous_track(p, TRUE))
      [] OTHER                -> FALSE

\* ------------------------------------------- VocalCommandRecognizer

\* The distributions predict_proba can return: one entry per label, each a
\* multiple of 1/ProbScale, summing to 1.  DistsOf(n, s): n entries summing to s.
RECURSIVE DistsOf(_, _)
DistsOf(n, s) ==
    IF n = 1 THEN {<<s>>}
    ELSE UNION {{<<x>> \o t : t \in DistsOf(n - 1, s - x)} : x \in 0..s}

Distributions == DistsOf(NumCommands, ProbScale)

\* predict_command: pred is model.predict(features)[0] (0-based), proba is
\* model.predict_proba(features)[0]; returns (prediction, confidence, probabilities).
predict_command(pred, proba) == <<pred, proba[pred + 1], proba>>

\* execute_music_command's if/elif chain; a command outside it falls through.
execute_music_command(cmd, p, loaded) ==
    CASE cmd = "shush"   -> pause(p)
      [] cmd = "click"   -> play(p, loaded)
      [] cmd = "whistle" -> next_track(p, loaded)
      [] cmd = "pop"     -> volume_up(p)
      [] cmd = "hiss"    -> volume_down(p)
      [] cmd = "hum"     -> previous_track(p, loaded)
      [] OTHER           -> p

\* ---------------------------------------------------------- state

\* ------------------------------- the two feature extractions

\* A window is a sequence of hop-sized frames; a frame is silent (amplitude 0) or
\* sounds at amplitude PeakAmplitude.
MaxFrames == 14
PeakAmplitude == 2

\* librosa.effects.trim(y, top_db=25): a frame counts as sound when its level is less
\* than 25 dB below the loudest frame, i.e. above 10^(-25/20) = 0.0562 of its amplitude.
TopDbRatioNum == 562
TopDbRatioDen == 10000

\* "if len(y_trimmed) < sr * 0.3": the shortest trimmed clip that is kept, in seconds.
MinTrimmedNum == 3
MinTrimmedDen == 10

\* librosa.load(audio_file, sr=22050, duration=2.0): seconds read from the file.
TrainingDuration == 2

\* The parameters of the training script's librosa.load and librosa.feature.mfcc calls.
TrainingParams ==
    [sr |-> 22050, n_mfcc |-> 13, n_fft |-> 2048, hop_length |-> 512, n_mels |-> 128]

\* The recognizer's call passes sr and n_mfcc; librosa's defaults supply the rest
\* (n_fft=2048, hop_length=512, n_mels=128).
InferenceParams ==
    [sr |-> sample_rate, n_mfcc |-> n_mfcc, n_fft |-> 2048, hop_length |-> 512,
     n_mels |-> 128]

Windows == UNION {[1..n -> {0, PeakAmplitude}] : n \in 1..MaxFrames}

RECURSIVE SumSeq(_)
SumSeq(y) == IF y = <<>> THEN 0 ELSE Head(y) + SumSeq(Tail(y))

\* np.max(np.abs(y))
Peak(y) == IF y = <<>> THEN 0 ELSE CHOOSE a \in {y[i] : i \in DOMAIN y} :
                                       \A i \in DOMAIN y : y[i] <= a

\* The frames librosa.effects.trim keeps as sound (of an all-zero signal: every frame,
\* since each is 0 dB below the reference).
NonSilent(y) ==
    LET peak == Peak(y)
    IN  {i \in DOMAIN y : peak = 0 \/ y[i] * TopDbRatioDen > TopDbRatioNum * peak}

\* librosa.effects.trim: from the first frame of sound to the last one.
Trim(y) ==
    LET sound == NonSilent(y)
    IN  IF sound = {} THEN <<>>
        ELSE LET first == CHOOSE i \in sound : \A j \in sound : i <= j
                 last  == CHOOSE i \in sound : \A j \in sound : j <= i
             IN  SubSeq(y, first, last)

\* y / np.max(np.abs(y)) when the peak is positive: the samples over a common
\* denominator.
Normalize(y) == LET peak == Peak(y) IN IF peak > 0 THEN <<y, peak>> ELSE <<y, 1>>

\* np.mean(mfcc, axis=1): n_mfcc coefficients, each the average over the frames of a
\* per-frame value.  The per-frame value is represented by the frame's normalised
\* amplitude, and the average by the fraction <<numerator, denominator>>.
MfccMean(normalized, params) ==
    [n    |-> params.n_mfcc,
     mean |-> <<SumSeq(normalized[1]), normalized[2] * Len(normalized[1])>>]

NoFeatures == [n |-> 0, mean |-> <<0, 1>>]

\* feature_extraction.extract_features on a file holding the samples y.
training_extract_features(y) ==
    LET limit     == (TrainingParams.sr * TrainingDuration) \div TrainingParams.hop_length
        loaded    == SubSeq(y, 1, IF Len(y) < limit THEN Len(y) ELSE limit)
        y_trimmed == Trim(loaded)
        kept      == IF Len(y_trimmed) * TrainingParams.hop_length * MinTrimmedDen
                          < TrainingParams.sr * MinTrimmedNum
                     THEN loaded
                     ELSE y_trimmed
    IN  MfccMean(Normalize(kept), TrainingParams)

\* VocalCommandRecognizer.extract_features on the samples audio.
extract_features(audio) == MfccMean(Normalize(audio), InferenceParams)

VARIABLES
    player,         \* the MusicPlayer's fields
    model_file,     \* 'vocal_command_model.pkl' on disk: "ok", "missing" or "corrupt"
    model_loaded,   \* the recognizer has its model, commands, sample_rate, ...
    pc,             \* where main() stands
    user_input,     \* the line last read at the prompt
    stream_open,    \* the sd.InputStream of record_audio is open
    blocks,         \* blocks appended to record_audio's list by the callback
    status_seen,    \* the callback was handed a non-empty status in this cycle
    audio_len,      \* samples in the window record_audio returned (0: none)
    features_len,   \* length of the feature vector of this cycle (0: none)
    prediction,     \* the label predict_command returned (-1: none)
    confidence,     \* its confidence, in 1/ProbScale (-1: none)
    probabilities,  \* the distribution predict_command returned (<<>>: none)
    command,        \* recognizer.commands[prediction] ("none": none)
    calls,          \* controller methods the loop invoked in this iteration
    last_call,      \* the method invoked last ("none": none)
    outcome,        \* what the iteration reported to the user
    pending_triggers,  \* empty lines read minus calls of record_audio() so far
    window,         \* the samples given to both feature extractions (<<>>: none)
    train_features, \* what feature_extraction.extract_features returned
    infer_features  \* what VocalCommandRecognizer.extract_features returned

vars == <<player, model_file, model_loaded, pc, user_input, stream_open, blocks,
          status_seen, audio_len, features_len, prediction, confidence,
          probabilities, command, calls, last_call, outcome, pending_triggers,
          window, train_features, infer_features>>

\* The state of the comparison of the two feature extractions.
feature_vars == <<window, train_features, infer_features>>

cycle_vars == <<blocks, status_seen, audio_len, features_len, prediction,
                confidence, command>>

\* The positions of main() inside its while loop.
LoopPcs == {"prompt", "listening", "capturing", "extract", "classify", "gate", "dispatch"}

Keywords == {"play", "pause", "next", "previous", "volup", "voldown"}

\* Mutant of KeywordMethod: 'next' and 'previous' are swapped.
KeywordMethodSwapped(kw) ==
    CASE kw = "play"     -> "play"
      [] kw = "pause"    -> "pause"
      [] kw = "next"     -> "previous_track"
      [] kw = "previous" -> "next_track"
      [] kw = "volup"    -> "volume_up"
      [] kw = "voldown"  -> "volume_down"

\* The method a keyword command calls (main's if/elif chain).
KeywordMethod(kw) ==
    CASE kw = "play"     -> "play"
      [] kw = "pause"    -> "pause"
      [] kw = "next"     -> "next_track"
      [] kw = "previous" -> "previous_track"
      [] kw = "volup"    -> "volume_up"
      [] kw = "voldown"  -> "volume_down"

\* Mutants of PassesGate: >= for >, and a gate that only asks for a confidence.
PassesGateNonStrict(conf) == conf * ThresholdDen >= ThresholdNum * ProbScale

PassesGateAnyConfidence(conf) == conf >= 0

\* confidence > confidence_threshold
PassesGate(conf) == conf * ThresholdDen > ThresholdNum * ProbScale

\* A new loop iteration: nothing of the previous cycle is used again.
FreshCycle ==
    /\ blocks' = 0
    /\ status_seen' = FALSE
    /\ audio_len' = 0
    /\ features_len' = 0
    /\ prediction' = -1
    /\ confidence' = -1
    /\ command' = "none"

\* --------------------------------------------------------- main()

\* player = MusicPlayer() has run; the recognizer is not constructed yet.
Init ==
    /\ player \in {NewPlayer(n) : n \in 0..MaxTracks}
    /\ model_file \in {"ok", "missing", "corrupt"}
    /\ model_loaded = FALSE
    /\ pc = "init"
    /\ user_input = "none"
    /\ stream_open = FALSE
    /\ blocks = 0
    /\ status_seen = FALSE
    /\ audio_len = 0
    /\ features_len = 0
    /\ prediction = -1
    /\ confidence = -1
    /\ probabilities = <<>>
    /\ command = "none"
    /\ calls = 0
    /\ last_call = "none"
    /\ outcome = "none"
    /\ pending_triggers = 0
    /\ window = <<>>
    /\ train_features = NoFeatures
    /\ infer_features = NoFeatures

\* recognizer = VocalCommandRecognizer('vocal_command_model.pkl') inside main's try:
\* a missing file makes __init__ print and return (no exception: main goes on to the
\* loop); joblib.load raising makes main print and return.
ConstructRecognizer ==
    /\ UNCHANGED <<pending_triggers, feature_vars>>
    /\ pc = "init"
    /\ CASE model_file = "missing" ->
              /\ model_loaded' = FALSE
              /\ outcome' = "model_not_found"
              /\ pc' = "prompt"
         [] model_file = "corrupt" ->
              /\ model_loaded' = FALSE
              /\ outcome' = "load_failed"
              /\ pc' = "exited"
         [] OTHER ->
              /\ model_loaded' = TRUE
              /\ outcome' = "none"
              /\ pc' = "prompt"
    /\ UNCHANGED <<player, model_file, user_input, stream_open, cycle_vars,
                   probabilities, calls, last_call>>

\* Mutant of Quit: the loop is left without the cleanup.
QuitWithoutStop ==
    /\ UNCHANGED <<pending_triggers, feature_vars>>
    /\ pc = "prompt"
    /\ \E inp \in {"quit", "exit"} : user_input' = inp
    /\ FreshCycle
    /\ calls' = 0
    /\ last_call' = "none"
    /\ outcome' = "quit"
    /\ pc' = "done"
    /\ UNCHANGED <<player, model_file, model_loaded, stream_open, probabilities>>

\* 'quit' or 'exit': break, then the cleanup player.stop().
Quit ==
    /\ UNCHANGED <<pending_triggers, feature_vars>>
    /\ pc = "prompt"
    /\ \E inp \in {"quit", "exit"} : user_input' = inp
    /\ FreshCycle
    /\ calls' = 0
    /\ last_call' = "none"
    /\ player' = stop(player)
    /\ outcome' = "quit"
    /\ pc' = "done"
    /\ UNCHANGED <<model_file, model_loaded, stream_open, probabilities>>

\* 'status', 'mapping', or a line that is no command: print and continue.
Report ==
    /\ UNCHANGED <<pending_triggers, feature_vars>>
    /\ pc = "prompt"
    /\ \E inp \in {"status", "mapping", "other"} :
          /\ user_input' = inp
          /\ outcome' = IF inp = "other" THEN "unknown_command" ELSE inp
    /\ FreshCycle
    /\ calls' = 0
    /\ last_call' = "none"
    /\ UNCHANGED <<player, model_file, model_loaded, pc, stream_open, probabilities>>

\* A keyword command: the controller method is called directly, then continue.
Keyword ==
    /\ UNCHANGED <<pending_triggers, feature_vars>>
    /\ pc = "prompt"
    /\ \E kw \in Keywords, loaded \in BOOLEAN :
          /\ user_input' = kw
          /\ player' = Invoke(KeywordMethod(kw), player, loaded)
          /\ last_call' = KeywordMethod(kw)
    /\ FreshCycle
    /\ calls' = 1
    /\ outcome' = "keyword"
    /\ UNCHANGED <<model_file, model_loaded, pc, stream_open, probabilities>>

\* An empty line: "Listening for voice command...", record_audio() is called next.
EmptyLine ==
    /\ pending_triggers' = pending_triggers + 1
    /\ UNCHANGED feature_vars
    /\ pc = "prompt"
    /\ user_input' = ""
    /\ FreshCycle
    /\ calls' = 0
    /\ last_call' = "none"
    /\ outcome' = "listening"
    /\ pc' = "listening"
    /\ UNCHANGED <<player, model_file, model_loaded, stream_open, probabilities>>

\* record_audio() up to the stream being open.  Without a model the recognizer has no
\* self.duration (AttributeError); sd.InputStream raises when the device cannot be
\* opened.  Both land in main's except Exception, which prints and loops.
RecordAudioOpen ==
    /\ pending_triggers' = pending_triggers - 1
    /\ UNCHANGED feature_vars
    /\ pc = "listening"
    /\ \E opened \in BOOLEAN :
          IF model_loaded /\ opened
          THEN /\ stream_open' = TRUE
               /\ pc' = "capturing"
               /\ UNCHANGED outcome
          ELSE /\ outcome' = "error"
               /\ pc' = "prompt"
               /\ UNCHANGED stream_open
    /\ UNCHANGED <<player, model_file, model_loaded, user_input, cycle_vars,
                   probabilities, calls, last_call>>

\* The device callback: prints the status if there is one, and appends the block
\* either way.
Callback ==
    /\ UNCHANGED <<pending_triggers, feature_vars>>
    /\ stream_open
    /\ blocks < MaxBlocks
    /\ \E status \in BOOLEAN : status_seen' = (status_seen \/ status)
    /\ blocks' = blocks + 1
    /\ UNCHANGED <<player, model_file, model_loaded, pc, user_input, stream_open,
                   audio_len, features_len, prediction, confidence, probabilities,
                   command, calls, last_call, outcome>>

\* A record_audio() that, when nothing was captured, starts another capture by itself
\* instead of raising.
RecordAudioCloseRetries ==
    /\ UNCHANGED <<pending_triggers, feature_vars>>
    /\ pc = "capturing"
    /\ stream_open' = FALSE
    /\ blocks' = 0
    /\ IF blocks = 0
       THEN /\ pc' = "listening"
            /\ UNCHANGED <<audio_len, outcome>>
       ELSE /\ audio_len' = blocks * chunk_size
            /\ pc' = "extract"
            /\ UNCHANGED outcome
    /\ UNCHANGED <<player, model_file, model_loaded, user_input, status_seen,
                   features_len, prediction, confidence, probabilities, command,
                   calls, last_call>>

\* sd.sleep is over: the with block closes the stream, and the blocks are
\* concatenated as they are (np.concatenate of an empty list raises ValueError).
RecordAudioClose ==
    /\ UNCHANGED <<pending_triggers, feature_vars>>
    /\ pc = "capturing"
    /\ stream_open' = FALSE
    /\ blocks' = 0
    /\ IF blocks = 0
       THEN /\ outcome' = "error"
            /\ pc' = "prompt"
            /\ UNCHANGED audio_len
       ELSE /\ audio_len' = blocks * chunk_size
            /\ pc' = "extract"
            /\ UNCHANGED outcome
    /\ UNCHANGED <<player, model_file, model_loaded, user_input, status_seen,
                   features_len, prediction, confidence, probabilities, command,
                   calls, last_call>>

\* extract_features: normalise, MFCC with n_mfcc = 13, mean over the frames.
\* The window is not used after it.
ExtractFeatures ==
    /\ UNCHANGED <<pending_triggers, feature_vars>>
    /\ pc = "extract"
    /\ features_len' = n_mfcc
    /\ audio_len' = 0
    /\ pc' = "classify"
    /\ UNCHANGED <<player, model_file, model_loaded, user_input, stream_open, blocks,
                   status_seen, prediction, confidence, probabilities, command,
                   calls, last_call, outcome>>

\* predict_command and command = recognizer.commands[prediction]; all_probs is
\* only printed.
Classify ==
    /\ UNCHANGED <<pending_triggers, feature_vars>>
    /\ pc = "classify"
    /\ \E pred \in 0..(NumCommands - 1), proba \in Distributions :
          LET r == predict_command(pred, proba)
          IN  /\ prediction' = r[1]
              /\ confidence' = r[2]
              /\ command' = commands[r[1] + 1]
    /\ pc' = "gate"
    /\ UNCHANGED <<player, model_file, model_loaded, user_input, stream_open, blocks,
                   status_seen, audio_len, features_len, probabilities, calls,
                   last_call, outcome>>

\* Mutant of Gate: an uncertain detection starts the next capture by itself.
GateRetriesCapture ==
    /\ UNCHANGED <<pending_triggers, feature_vars>>
    /\ pc = "gate"
    /\ IF PassesGate(confidence)
       THEN /\ outcome' = "detected"
            /\ pc' = "dispatch"
       ELSE /\ outcome' = "uncertain"
            /\ pc' = "listening"
    /\ UNCHANGED <<player, model_file, model_loaded, user_input, stream_open,
                   cycle_vars, probabilities, calls, last_call>>

\* if confidence > confidence_threshold: ... else: "Uncertain detection"
Gate ==
    /\ UNCHANGED <<pending_triggers, feature_vars>>
    /\ pc = "gate"
    /\ IF PassesGate(confidence)
       THEN /\ outcome' = "detected"
            /\ pc' = "dispatch"
       ELSE /\ outcome' = "uncertain"
            /\ pc' = "prompt"
    /\ UNCHANGED <<player, model_file, model_loaded, user_input, stream_open,
                   cycle_vars, probabilities, calls, last_call>>

\* if command in sound_mapping: call its action, else "No action mapped".
Dispatch ==
    /\ UNCHANGED <<pending_triggers, feature_vars>>
    /\ pc = "dispatch"
    /\ IF command \in DOMAIN sound_mapping
       THEN \E loaded \in BOOLEAN :
               /\ player' = Invoke(sound_mapping[command], player, loaded)
               /\ calls' = calls + 1
               /\ last_call' = sound_mapping[command]
               /\ outcome' = "dispatched"
       ELSE /\ outcome' = "no_action"
            /\ UNCHANGED <<player, calls, last_call>>
    /\ pc' = "prompt"
    /\ UNCHANGED <<model_file, model_loaded, user_input, stream_open, cycle_vars,
                   probabilities>>

\* KeyboardInterrupt anywhere in the loop's try: "Goodbye!", break, cleanup.
Interrupt ==
    /\ UNCHANGED <<pending_triggers, feature_vars>>
    /\ pc \in LoopPcs
    /\ stream_open' = FALSE
    /\ player' = stop(player)
    /\ outcome' = "goodbye"
    /\ pc' = "done"
    /\ UNCHANGED <<model_file, model_loaded, user_input, cycle_vars, probabilities,
                   calls, last_call>>

Next ==
    \/ ConstructRecognizer
    \/ Quit
    \/ Report
    \/ Keyword
    \/ EmptyLine
    \/ RecordAudioOpen
    \/ Callback
    \/ RecordAudioClose
    \/ ExtractFeatures
    \/ Classify
    \/ Gate
    \/ Dispatch
    \/ Interrupt

Spec == Init /\ [][Next]_vars

\* ------------------------------- the recognizer's methods, called directly

\* The keys of execute_music_command's actions dict.
ExecuteLabels == {"shush", "click", "whistle", "pop", "hiss", "hum"}

\* A loaded recognizer and a player, outside main's loop.
InitLibrary ==
    /\ player \in {NewPlayer(n) : n \in 0..MaxTracks}
    /\ model_file = "ok"
    /\ model_loaded = TRUE
    /\ pc = "library"
    /\ user_input = "none"
    /\ stream_open = FALSE
    /\ blocks = 0
    /\ status_seen = FALSE
    /\ audio_len = 0
    /\ features_len = n_mfcc
    /\ prediction = -1
    /\ confidence = -1
    /\ probabilities = <<>>
    /\ command = "none"
    /\ calls = 0
    /\ last_call = "none"
    /\ outcome = "none"
    /\ pending_triggers = 0
    /\ window = <<>>
    /\ train_features = NoFeatures
    /\ infer_features = NoFeatures

\* predict_command(features) on any output of the model: model.predict and
\* model.predict_proba are two calls, and an SVC fitted with probability=True
\* answers them by different rules (votes of the pairwise classifiers, and
\* Platt-scaled probabilities), so the label is not tied to the distribution.
PredictCommand ==
    /\ UNCHANGED <<pending_triggers, feature_vars>>
    /\ pc = "library"
    /\ \E pred \in 0..(NumCommands - 1), proba \in Distributions :
          LET r == predict_command(pred, proba)
          IN  /\ prediction' = r[1]
              /\ confidence' = r[2]
              /\ probabilities' = r[3]
    /\ pc' = "returned"
    /\ UNCHANGED <<player, model_file, model_loaded, user_input, stream_open, blocks,
                   status_seen, audio_len, features_len, command, calls, last_call,
                   outcome>>

NextPredict == PredictCommand

SpecPredict == InitLibrary /\ [][NextPredict]_vars

\* execute_music_command(command, confidence, music_player) on any command string:
\* the text is printed (actions.get with the "Unknown command" default), the chain
\* runs, and the method returns.
ExecuteMusicCommand ==
    /\ UNCHANGED <<pending_triggers, feature_vars>>
    /\ pc \in {"library", "returned"}
    /\ \E cmd \in Labels \cup {UnknownLabel}, loaded \in BOOLEAN :
          /\ command' = cmd
          /\ player' = execute_music_command(cmd, player, loaded)
          /\ outcome' = IF cmd \in ExecuteLabels THEN "executed" ELSE "unknown_command"
    /\ pc' = "returned"
    /\ UNCHANGED <<model_file, model_loaded, user_input, stream_open, blocks,
                   status_seen, audio_len, features_len, prediction, confidence,
                   probabilities, calls, last_call>>

NextExecute == ExecuteMusicCommand

SpecExecute == InitLibrary /\ [][NextExecute]_vars

\* A loaded recognizer and a window of samples, before either extraction.
InitFeatures ==
    /\ player = NewPlayer(0)
    /\ model_file = "ok"
    /\ model_loaded = TRUE
    /\ pc = "library"
    /\ user_input = ""
    /\ stream_open = FALSE
    /\ blocks = 0
    /\ status_seen = FALSE
    /\ audio_len = 0
    /\ features_len = 0
    /\ prediction = 0
    /\ confidence = 0
    /\ probabilities = <<>>
    /\ command = "none"
    /\ calls = 0
    /\ last_call = "none"
    /\ outcome = "none"
    /\ pending_triggers = 0
    /\ window \in Windows
    /\ train_features = NoFeatures
    /\ infer_features = NoFeatures

\* The training script extracts the features of the window.
ExtractTraining ==
    /\ pc = "library"
    /\ window # <<>>
    /\ train_features = NoFeatures
    /\ train_features' = training_extract_features(window)
    /\ UNCHANGED <<player, model_file, model_loaded, pc, user_input, stream_open, blocks,
                   status_seen, audio_len, features_len, prediction, confidence,
                   probabilities, command, calls, last_call, outcome,
                   pending_triggers, window, infer_features>>

\* The recognizer extracts the features of the same window.
ExtractInference ==
    /\ pc = "library"
    /\ window # <<>>
    /\ infer_features = NoFeatures
    /\ infer_features' = extract_features(window)
    /\ UNCHANGED <<player, model_file, model_loaded, pc, user_input, stream_open, blocks,
                   status_seen, audio_len, features_len, prediction, confidence,
                   probabilities, command, calls, last_call, outcome,
                   pending_triggers, window, train_features>>

NextFeatures == ExtractTraining \/ ExtractInference

SpecFeatures == InitFeatures /\ [][NextFeatures]_vars

\* ------------------------------------------------------------ claims

\* The positions of a recognition cycle (everything in the loop but the prompt).
CyclePcs == LoopPcs \ {"prompt"}

\* C1: the gate is strict.  A step of the gate (any step that leaves "gate" other
\* than the interrupt) hands the predicted label to dispatch exactly when
\* confidence > 0.4; at confidence = 0.4 and below it reports "uncertain" and
\* returns to the prompt.
C1_GateIsStrict ==
    [][(pc = "gate" /\ pc' # "done") =>
          IF confidence * ThresholdDen > ThresholdNum * ProbScale
          THEN /\ pc' = "dispatch"
               /\ command' = commands[prediction + 1]
               /\ outcome' = "detected"
          ELSE /\ pc' = "prompt"
               /\ outcome' = "uncertain"]_vars

\* C1 witness: the gate has rejected a confidence exactly equal to the threshold.
C1_Witness ==
    /\ pc = "prompt"
    /\ outcome = "uncertain"
    /\ confidence * ThresholdDen = ThresholdNum * ProbScale

\* C2: a cycle the gate rejects invokes no controller method and leaves the
\* playback state as it was: every step of a cycle up to the gate, and the
\* gate's rejection itself, leave the player unchanged and the call count at 0.
C2_RejectedCycleChangesNothing ==
    [][/\ (pc' \in CyclePcs => (player' = player /\ calls' = 0))
       /\ (/\ pc = "gate"
           /\ pc' # "done"
           /\ ~(confidence * ThresholdDen > ThresholdNum * ProbScale))
          => (pc' = "prompt" /\ player' = player /\ calls' = 0)]_vars

\* C2 witness: music is playing, a cycle has been rejected, nothing was called.
C2_Witness ==
    /\ pc = "prompt"
    /\ outcome = "uncertain"
    /\ confidence >= 0
    /\ calls = 0
    /\ player.is_playing

\* C3: each of the six labels has exactly one entry in the mapping, and the
\* dispatch of a gated label invokes exactly one controller method, the one of
\* that entry.
C3_OneInvocationPerLabel ==
    /\ [](\A l \in Labels : Cardinality({k \in DOMAIN sound_mapping : k = l}) = 1)
    /\ [](pc = "dispatch" => command \in Labels)
    /\ [][(pc = "dispatch" /\ pc' # "done") =>
             /\ pc' = "prompt"
             /\ calls = 0
             /\ calls' = 1
             /\ last_call' \in Methods
             /\ outcome' = "dispatched"]_vars

\* C3 witness: the label 'hum' has been dispatched with one invocation.
C3_Witness ==
    /\ pc = "prompt"
    /\ outcome = "dispatched"
    /\ command = "hum"
    /\ calls = 1
    /\ last_call = "play"

\* C4 (as claimed): the confidence predict_command returns is the largest entry of
\* the distribution it returns, and is the entry of the predicted label.
C4_ConfidenceIsMaximum ==
    pc = "returned" =>
        /\ confidence = probabilities[prediction + 1]
        /\ \A i \in 1..NumCommands : probabilities[i] <= confidence

\* C5 (as claimed): dispatching 'pop' invokes next_track once and leaves the index
\* at (previous index + 1) modulo the track-list length, for every length: the
\* new index is the residue of previous + 1 among 0 .. length - 1.
C5_PopAdvancesModuloAnyLength ==
    [][(pc = "dispatch" /\ command = "pop" /\ pc' # "done") =>
          /\ calls' = 1
          /\ last_call' = "next_track"
          /\ \E i \in 0..(player.track_len - 1) :
                /\ i = (player.current_track_index + 1) % player.track_len
                /\ player'.current_track_index = i]_vars

\* C5 (amended): dispatching 'pop' invokes next_track once; with a non-empty track
\* list the index becomes (previous index + 1) modulo the length, and with an
\* empty track list it stays as it was.
C5_PopAdvancesModuloLength ==
    [][(pc = "dispatch" /\ command = "pop" /\ pc' # "done") =>
          /\ calls' = 1
          /\ last_call' = "next_track"
          /\ player'.track_len = player.track_len
          /\ IF player.track_len > 0
             THEN player'.current_track_index =
                      (player.current_track_index + 1) % player.track_len
             ELSE player'.current_track_index = player.current_track_index]_vars

\* C5 witness: 'pop' was dispatched on a list of two tracks and the index has
\* wrapped from the last track to the first.
C5_Witness ==
    /\ pc = "prompt"
    /\ outcome = "dispatched"
    /\ command = "pop"
    /\ last_call = "next_track"
    /\ player.track_len = 2
    /\ player.current_track_index = 0

\* C6 (as claimed): main is inside its loop only with a loaded model.
C6_LoopOnlyWithModel == pc \in LoopPcs => model_loaded

\* C7 (as claimed): a cycle whose capture saw a device fault produces no feature
\* vector and no classification, invokes no controller method, and is back at
\* the prompt (or still capturing) with an error reported.
C7_FaultAbortsCycle ==
    status_seen =>
        /\ features_len = 0
        /\ prediction = -1
        /\ calls = 0
        /\ pc \in {"capturing", "prompt", "done"}
        /\ (pc = "prompt" => outcome = "error")

\* C8 (as claimed): the window record_audio returns has exactly
\* duration * sample_rate samples.
C8_WindowHasTargetLength == pc = "extract" => audio_len = duration * sample_rate

\* C9: the stages of a cycle run in the order capture, extraction,
\* classification, gate, dispatch, each on the result of the one before, and a
\* new capture starts only from the prompt: pc moves only along the edges of
\* the cycle, back to the prompt, or out of the loop, and the stream is open
\* only while capturing.
StageEdges ==
    {<<"init", "prompt">>, <<"init", "exited">>,
     <<"prompt", "listening">>, <<"listening", "capturing">>,
     <<"capturing", "extract">>, <<"extract", "classify">>,
     <<"classify", "gate">>, <<"gate", "dispatch">>,
     <<"listening", "prompt">>, <<"capturing", "prompt">>,
     <<"gate", "prompt">>, <<"dispatch", "prompt">>}
    \cup {<<p, "done">> : p \in LoopPcs}

C9_StagesInOrder ==
    /\ [][pc' # pc => <<pc, pc'>> \in StageEdges]_vars
    /\ [](stream_open => pc = "capturing")
    /\ [](pc = "extract" => (~stream_open /\ audio_len > 0 /\ features_len = 0))
    /\ [](pc = "classify" => (features_len = n_mfcc /\ confidence = -1))
    /\ [](pc = "gate" => (features_len = n_mfcc /\ confidence >= 0 /\ calls = 0))
    /\ [](pc = "dispatch" => (confidence >= 0 /\ calls = 0))

\* C9 witness: a whole cycle, from the capture to the dispatch, has completed.
C9_Witness ==
    /\ pc = "prompt"
    /\ outcome = "dispatched"
    /\ features_len = n_mfcc
    /\ confidence >= 0
    /\ calls = 1

\* C10 (as claimed): a command with no entry is signalled as a ConfigurationError.
C10_MissingEntryIsSignalled ==
    (pc = "returned" /\ command \notin ExecuteLabels) =>
        outcome = "ConfigurationError"

\* A step in which the loop calls a controller method: a keyword command read
\* at the prompt, or the dispatch of a gated label.
ControllerCall ==
    \/ pc = "prompt" /\ pc' = "prompt" /\ user_input' \in Keywords /\ calls' = 1
    \/ pc = "dispatch" /\ pc' = "prompt" /\ calls' = 1

\* C11: in every reachable state of the controller none of the six operations
\* raises, and pause() on a paused player changes nothing: the operation applied
\* to a paused player returns it as it is, and every call of pause made by the
\* loop on a paused player leaves the player unchanged.
C11_OperationsSafeAndPauseIdempotent ==
    /\ [](\A m \in Methods : ~Raises(m, player))
    /\ [](player.is_paused => pause(player) = player)
    /\ [][(ControllerCall /\ last_call' = "pause" /\ player.is_paused)
             => player' = player]_vars

\* C11 witness: the player is paused and the loop has just called pause() by the
\* keyword, on two tracks with the second one current.
C11_Witness ==
    /\ pc = "prompt"
    /\ user_input = "pause"
    /\ last_call = "pause"
    /\ calls = 1
    /\ player.is_paused
    /\ ~player.is_playing
    /\ player.track_len = 2
    /\ player.current_track_index = 1

\* C12: 'quit' and 'exit' are accepted at every prompt, whatever the controller
\* state; the step that reads one ends the loop without capture, features,
\* classification or controller call, and leaves playback stopped (is_playing
\* and is_paused both false) with no input stream open; after termination
\* nothing runs any more.
C12_QuitTerminatesAndStops ==
    /\ [](pc = "prompt" => ENABLED Quit)
    /\ [][(pc = "prompt" /\ user_input' \in {"quit", "exit"}) =>
             /\ pc' = "done"
             /\ ~player'.is_playing
             /\ ~player'.is_paused
             /\ ~stream_open'
             /\ blocks' = 0
             /\ audio_len' = 0
             /\ features_len' = 0
             /\ prediction' = -1
             /\ calls' = 0
             /\ player'.current_track_index = player.current_track_index
             /\ player'.volume = player.volume]_vars
    /\ [](pc = "done" => (~player.is_playing /\ ~player.is_paused /\ ~stream_open))
    /\ [][pc # "done"]_vars

\* C12 witness: 'exit' was read while the second of two tracks was current (a
\* track change had started playback before), and the loop is over.
C12_Witness ==
    /\ pc = "done"
    /\ user_input = "exit"
    /\ outcome = "quit"
    /\ player.track_len = 2
    /\ player.current_track_index = 1

\* The controller method each keyword command stands for.
KeywordTarget ==
    [kw \in {"play", "pause", "next", "previous", "volup", "voldown"} |->
        CASE kw = "play"     -> "play"
          [] kw = "pause"    -> "pause"
          [] kw = "next"     -> "next_track"
          [] kw = "previous" -> "previous_track"
          [] kw = "volup"    -> "volume_up"
          [] kw = "voldown"  -> "volume_down"]

\* C13: a keyword command read at the prompt calls its controller method, and
\* only that one, once (the player after the step is the player that method
\* returns), and the iteration stays at the prompt with no stream opened, no
\* block captured, no window, no feature vector, no classification and no gate
\* outcome.
C13_KeywordsBypassRecognition ==
    [][(pc = "prompt" /\ pc' # "done" /\ user_input' \in DOMAIN KeywordTarget) =>
          /\ pc' = "prompt"
          /\ calls' = 1
          /\ last_call' = KeywordTarget[user_input']
          /\ \E loaded \in BOOLEAN :
                player' = Invoke(KeywordTarget[user_input'], player, loaded)
          /\ ~stream_open'
          /\ blocks' = 0
          /\ audio_len' = 0
          /\ features_len' = 0
          /\ prediction' = -1
          /\ confidence' = -1
          /\ command' = "none"
          /\ outcome' = "keyword"]_vars

\* C13 witness: the keyword 'next' has moved the player from the first to the
\* second track with one call of next_track.
C13_Witness ==
    /\ pc = "prompt"
    /\ user_input = "next"
    /\ outcome = "keyword"
    /\ calls = 1
    /\ last_call = "next_track"
    /\ player.current_track_index = 1
    /\ features_len = 0
    /\ prediction = -1

\* C14: both feature extractions use the same parameters and give the same
\* 13-element vector for the same window of samples.
C14_SameWindowSameFeatures ==
    /\ TrainingParams = InferenceParams
    /\ (train_features # NoFeatures /\ infer_features # NoFeatures) =>
          /\ train_features.n = n_mfcc
          /\ infer_features.n = n_mfcc
          /\ train_features.mean[1] * infer_features.mean[2]
               = infer_features.mean[1] * train_features.mean[2]

\* C15: every capture is started by its own trigger.  pending_triggers is the number
\* of empty lines read minus the number of record_audio() calls, so captures never
\* outnumber triggers; the stream is only opened by a call that takes a trigger; a
\* trigger is only ever an empty line read at the prompt; and from the prompt after
\* a failed cycle or an uncertain detection no capture starts until a line is read.
C15_OneCapturePerTrigger ==
    /\ [](pending_triggers \in {0, 1})
    /\ [][(stream_open' /\ ~stream_open) =>
             /\ pending_triggers = 1
             /\ pending_triggers' = 0
             /\ user_input = ""]_vars
    /\ [][(pending_triggers' > pending_triggers) =>
             /\ pc = "prompt"
             /\ user_input' = ""
             /\ pc' = "listening"]_vars
    /\ [][(pc = "prompt" /\ outcome \in {"error", "uncertain"}) =>
             /\ ~stream_open'
             /\ pc' \in {"prompt", "listening", "done", "exited"}
             /\ (pc' = "listening" => pending_triggers' = pending_triggers + 1)]_vars

\* An uncertain detection has been reported and the loop is back at the prompt with
\* every trigger used up.
C15_Witness ==
    /\ pc = "prompt"
    /\ outcome = "uncertain"
    /\ user_input = ""
    /\ pending_triggers = 0
    /\ ~stream_open

\* C16: is_playing and is_paused are never both true; a call of pause() changes
\* is_paused only on a playing player, which it leaves paused and not playing;
\* stop() (applied to any reachable player, and as run by the cleanup) clears
\* both flags; next_track() and previous_track() on a non-empty track list
\* leave the player not paused.
C16_PlayingAndPausedExclusive ==
    /\ [](~(player.is_playing /\ player.is_paused))
    /\ [](~stop(player).is_playing /\ ~stop(player).is_paused)
    /\ [](pc = "done" => (~player.is_playing /\ ~player.is_paused))
    /\ [][(ControllerCall /\ last_call' = "pause") =>
             /\ (player'.is_paused # player.is_paused) => player.is_playing
             /\ player.is_playing => (player'.is_paused /\ ~player'.is_playing)]_vars
    /\ [][(/\ ControllerCall
           /\ last_call' \in {"next_track", "previous_track"}
           /\ player.track_len > 0)
             => ~player'.is_paused]_vars

\* C16 witness: the voice command 'shush' has paused the player.
C16_Witness ==
    /\ pc = "prompt"
    /\ outcome = "dispatched"
    /\ command = "shush"
    /\ last_call = "pause"
    /\ player.is_paused
    /\ ~player.is_playing

\* C17: with a non-empty track list the current track index is always within
\* 0 .. len(track_list) - 1, next_track() moving it one up and previous_track()
\* one down, each wrapping around at its end; with an empty track list it stays
\* at its initial value 0; and next_track() followed by previous_track() gives
\* back the index it started from.
C17_IndexInRangeAndRoundTrip ==
    /\ [](player.track_len > 0 =>
             player.current_track_index \in 0..(player.track_len - 1))
    /\ [](player.track_len = 0 => player.current_track_index = 0)
    /\ [](\A l1, l2 \in BOOLEAN :
             previous_track(next_track(player, l1), l2).current_track_index
                 = player.current_track_index)
    /\ [][(ControllerCall /\ last_call' = "next_track" /\ player.track_len > 0) =>
             player'.current_track_index =
                 IF player.current_track_index = player.track_len - 1
                 THEN 0 ELSE player.current_track_index + 1]_vars
    /\ [][(ControllerCall /\ last_call' = "previous_track" /\ player.track_len > 0) =>
             player'.current_track_index =
                 IF player.current_track_index = 0
                 THEN player.track_len - 1 ELSE player.current_track_index - 1]_vars

\* C17 witness: previous_track() on two tracks has wrapped from the first track
\* to the last.
C17_Witness ==
    /\ pc = "prompt"
    /\ user_input = "previous"
    /\ last_call = "previous_track"
    /\ player.track_len = 2
    /\ player.current_track_index = 1

\* a <= b for two volumes (the part d is far smaller than the double 0.1).
VolumeLeq(a, b) == a[1] < b[1] \/ (a[1] = b[1] /\ a[2] <= b[2])

\* A step in which the loop calls volume_up() or volume_down().
VolumeCall == ControllerCall /\ last_call' \in {"volume_up", "volume_down"}

\* C18: from the default 0.7 the volume always stays within [0.0, 1.0];
\* volume_up() at 1.0 and volume_down() at 0.0 leave it unchanged, and below
\* the bound a call moves it by one step of 0.1 (as doubles add) or onto the
\* bound; no step other than a call of volume_up() or volume_down() changes it.
C18_VolumeSaturates ==
    /\ [](VolumeLeq(VolumeMin, player.volume) /\ VolumeLeq(player.volume, VolumeMax))
    /\ [][(ControllerCall /\ last_call' = "volume_up") =>
             IF player.volume = VolumeMax
             THEN player'.volume = VolumeMax
             ELSE /\ player'.volume # player.volume
                  /\ VolumeLeq(player.volume, player'.volume)
                  /\ \/ player'.volume[1] = player.volume[1] + 1
                     \/ player'.volume = VolumeMax]_vars
    /\ [][(ControllerCall /\ last_call' = "volume_down") =>
             IF player.volume = VolumeMin
             THEN player'.volume = VolumeMin
             ELSE /\ player'.volume # player.volume
                  /\ VolumeLeq(player'.volume, player.volume)
                  /\ \/ player'.volume[1] = player.volume[1] - 1
                     \/ player'.volume = VolumeMin]_vars
    /\ [][~VolumeCall => player'.volume = player.volume]_vars

\* C18 witness: volume_up() has put the volume on its maximum 1.0.
C18_Witness ==
    /\ pc = "prompt"
    /\ last_call = "volume_up"
    /\ calls = 1
    /\ player.volume = VolumeMax

=============================================================================
